---- MODULE Spec2Model ----
(***************************************************************************)
(* stignore (main.go): appends Syncthing ignore patterns to .stignore or   *)
(* .stignore_sync of the synchronized folder that encloses the working     *)
(* directory.                                                              *)
(*                                                                         *)
(* A Go string is modelled as a sequence of one-character strings, so that *)
(* trimming, the flagsPath regular expression, filepath.Join and the byte  *)
(* layout of the files are computed character by character.                *)
(***************************************************************************)
EXTENDS Integers, Sequences, FiniteSets, TLC

\* ------------------------------------------------------------------ bounds

\* depth of the directory chain /root/some/path/... the working directory is drawn from
MaxDepth == 3
\* invocations of the program (the second one is a re-run on the files the first left)
MaxRuns == 2
\* unrecognised answers the user may give to the prompt before a decisive read
MaxPromptReads == 2

\* ----------------------------------------------------------- program text

includeDirective == <<"#", "i", "n", "c", "l", "u", "d", "e", " ">>
ignoreF == <<".", "s", "t", "i", "g", "n", "o", "r", "e">>
ignoreSyncF == ignoreF \o <<"_", "s", "y", "n", "c">>
Separator == "/"
NL == "\n"
\* the zero byte a fresh [1]byte holds
ZeroByte == "NUL"

\* ---------------------------------------------------------------- strings

\* unicode.IsSpace, on the characters the model uses
IsSpace(c) == c \in {" ", "\t", "\n", "\r"}

RECURSIVE TrimLeft(_)
TrimLeft(s) == IF s # <<>> /\ IsSpace(Head(s)) THEN TrimLeft(Tail(s)) ELSE s

RECURSIVE TrimRight(_)
TrimRight(s) ==
    IF s # <<>> /\ IsSpace(s[Len(s)]) THEN TrimRight(SubSeq(s, 1, Len(s) - 1)) ELSE s

\* strings.TrimSpace
TrimSpace(s) == TrimRight(TrimLeft(s))

\* strings.HasPrefix
HasPrefix(s, p) == Len(s) >= Len(p) /\ SubSeq(s, 1, Len(p)) = p

RECURSIVE Concat(_)
\* the strings of a list written one after the other
Concat(ss) == IF ss = <<>> THEN <<>> ELSE Head(ss) \o Concat(Tail(ss))

\* ------------------------------------------------------- flagsPath regexp
\* ^((?:(?:#include )|(?:\(\?.\))*)) *(.+)$   leftmost-first (Perl) matching

NoMatch == [ok |-> FALSE, m1 |-> <<>>, m2 |-> <<>>]

RECURSIVE FlagRun(_, _)
\* how many groups \(\?.\) stand one after the other from position i on
FlagRun(s, i) ==
    IF i + 3 <= Len(s) /\ s[i] = "(" /\ s[i + 1] = "?" /\ s[i + 2] # NL /\ s[i + 3] = ")"
    THEN 1 + FlagRun(s, i + 4)
    ELSE 0

RECURSIVE SpaceRun(_, _)
SpaceRun(s, i) == IF i <= Len(s) /\ s[i] = " " THEN 1 + SpaceRun(s, i + 1) ELSE 0

NoNewline(s) == \A k \in 1..Len(s) : s[k] # NL

\* with group 1 = s[1..p]: the greedy " *", then "(.+)$", which needs at least one
\* character, none of them a line break; " *" gives one blank back when it ate all
MatchRest(s, p) ==
    LET n == SpaceRun(s, p + 1)
        j == IF p + n < Len(s) THEN n ELSE n - 1
    IN  IF j >= 0 /\ p + j < Len(s) /\ NoNewline(SubSeq(s, p + j + 1, Len(s)))
        THEN [ok |-> TRUE, m1 |-> SubSeq(s, 1, p), m2 |-> SubSeq(s, p + j + 1, Len(s))]
        ELSE NoMatch

RECURSIVE TryFlags(_, _)
\* the alternative (?:\(\?.\))*, greedy: k groups, then fewer
TryFlags(s, k) ==
    IF MatchRest(s, 4 * k).ok THEN MatchRest(s, 4 * k)
    ELSE IF k = 0 THEN NoMatch
    ELSE TryFlags(s, k - 1)

\* flagsPath.FindStringSubmatch(s): ok is m != nil, m1 and m2 the two groups
FlagsPathMatch(s) ==
    LET inc == IF HasPrefix(s, includeDirective)
               THEN MatchRest(s, Len(includeDirective))
               ELSE NoMatch
    IN  IF inc.ok THEN inc ELSE TryFlags(s, FlagRun(s, 1))

\* ------------------------------------------------------------ path/filepath

RECURSIVE SplitSep(_, _)
\* the components of s between separators, cur being the one under way
SplitSep(s, cur) ==
    IF s = <<>> THEN <<cur>>
    ELSE IF Head(s) = Separator THEN <<cur>> \o SplitSep(Tail(s), <<>>)
    ELSE SplitSep(Tail(s), Append(cur, Head(s)))

DotDot == <<".", ".">>

RECURSIVE CleanStack(_, _, _)
\* filepath.Clean's pass over the components: empty and "." dropped, ".." takes the
\* component before it away, is dropped at the root, and is kept in front otherwise
CleanStack(comps, stack, rooted) ==
    IF comps = <<>> THEN stack
    ELSE LET c == Head(comps)
             rest == Tail(comps)
         IN  IF c = <<>> \/ c = <<".">> THEN CleanStack(rest, stack, rooted)
             ELSE IF c = DotDot
             THEN IF stack # <<>> /\ stack[Len(stack)] # DotDot
                  THEN CleanStack(rest, SubSeq(stack, 1, Len(stack) - 1), rooted)
                  ELSE IF rooted THEN CleanStack(rest, stack, rooted)
                  ELSE CleanStack(rest, Append(stack, c), rooted)
             ELSE CleanStack(rest, Append(stack, c), rooted)

RECURSIVE JoinSep(_)
JoinSep(comps) ==
    IF comps = <<>> THEN <<>>
    ELSE IF Len(comps) = 1 THEN Head(comps)
    ELSE Head(comps) \o <<Separator>> \o JoinSep(Tail(comps))

\* filepath.Clean
Clean(p) ==
    IF p = <<>> THEN <<".">>
    ELSE LET rooted == Head(p) = Separator
             stack == CleanStack(SplitSep(p, <<>>), <<>>, rooted)
         IN  IF rooted THEN <<Separator>> \o JoinSep(stack)
             ELSE IF stack = <<>> THEN <<".">>
             ELSE JoinSep(stack)

\* filepath.Join(a, b): the non-empty elements from the first one on, joined and cleaned
Join(a, b) ==
    IF a # <<>> THEN Clean(a \o <<Separator>> \o b)
    ELSE IF b # <<>> THEN Clean(b)
    ELSE <<>>

RECURSIVE LastSep(_, _)
LastSep(p, i) == IF i = 0 \/ p[i] = Separator THEN i ELSE LastSep(p, i - 1)

\* filepath.Dir
Dir(p) == Clean(SubSeq(p, 1, LastSep(p, Len(p))))

\* ------------------------------------------------------------- directories

SegNames ==
    << <<"r", "o", "o", "t">>, <<"s", "o", "m", "e">>, <<"p", "a", "t", "h">>,
       <<"i", "n", "s", "i", "d", "e">>, <<"d", "e", "e", "p", "e", "r">>,
       <<"d", "o", "w", "n">> >>

RECURSIVE DirAt(_)
\* the directory k levels below the filesystem root: "/", "/root", "/root/some", ...
DirAt(k) ==
    IF k = 0 THEN <<Separator>>
    ELSE IF k = 1 THEN <<Separator>> \o SegNames[1]
    ELSE DirAt(k - 1) \o <<Separator>> \o SegNames[k]

Dirs == {DirAt(k) : k \in 0..MaxDepth}

\* what <dir>/.stfolder is
MarkerKinds == {"none", "file", "dir"}

\* ---------------------------------------------------------------- variables

VARIABLES
    stfolder,      \* directory -> what its .stfolder entry is
    primary,       \* <stDir>/.stignore: [kind, data]
    secondary,     \* <stDir>/.stignore_sync: [kind, data]
    cwd,           \* working directory of the invocation
    args,          \* the global args: Local, Synced, Absolute, Patterns
    args0,         \* args as parsed from the command line
    pc,            \* where the invocation stands
    stDir,
    relPath,
    shouldPrompt,  \* shouldPromptIfMissing / WriteToSynced's shouldPrompt
    isIncluded,
    off,           \* offset of WriteToSynced's handle f on .stignore
    reads,         \* what Prompt's ReadString calls returned, in order
    prompt,        \* Prompt's answer
    err,           \* the error main reports
    errArg,        \* the pattern the error names
    primary0,      \* the two files when the invocation started
    secondary0,
    runs

vars ==
    <<stfolder, primary, secondary, cwd, args, args0, pc, stDir, relPath, shouldPrompt,
      isIncluded, off, reads, prompt, err, errArg, primary0, secondary0, runs>>

NoFile == [kind |-> "none", data |-> <<>>]
File(d) == [kind |-> "file", data |-> d]
DirEntry == [kind |-> "dir", data |-> <<>>]

NoArgs == [Local |-> FALSE, Synced |-> FALSE, Absolute |-> FALSE, Patterns |-> <<>>]

\* ------------------------------------------------------------------ files

\* EndsWithNewLine that looks only at whether a byte was there to read
EndsWithNewLineAnyByte(data) == Len(data) >= 1

\* EndsWithNewLine(f): Seek(-1, END) and a one-byte Read; on an empty file the Seek
\* fails, the Read at the end of the file reads nothing and endln keeps its zero
EndsWithNewLine(data) ==
    LET endln == IF Len(data) >= 1 THEN data[Len(data)] ELSE ZeroByte
    IN  endln = NL

\* a Write of bytes through a handle whose offset is at
FileWrite(data, at, bytes) ==
    SubSeq(data, 1, at) \o bytes \o SubSeq(data, at + Len(bytes) + 1, Len(data))

\* Append(f, toAppend), on the content of f: Seek(0, END), then the buffered writes,
\* flushed at that offset
AppendData(data, toAppend) ==
    LET end == Len(data)
        bw == (IF ~EndsWithNewLine(data) THEN <<NL>> ELSE <<>>)
              \o Concat(toAppend) \o <<NL>>
    IN  FileWrite(data, end, bw)

\* os.OpenFile(path, O_RDWR|O_CREATE, 0o644): ok, and the file as it is once opened
OpenFile(f) ==
    IF f.kind = "dir" THEN [ok |-> FALSE, file |-> f]
    ELSE [ok |-> TRUE, file |-> File(f.data)]

\* OpenAndAppend(path, toAppend)
OpenAndAppend(f, toAppend) ==
    LET o == OpenFile(f)
    IN  IF ~o.ok THEN o
        ELSE [ok |-> TRUE, file |-> File(AppendData(o.file.data, toAppend))]

RECURSIVE ReadLines(_, _)
\* what the ReadString('\n') calls of the scan return, one after the other: every
\* line with its line break, then the rest of the file (maybe empty) at io.EOF
ReadLines(data, cur) ==
    IF data = <<>> THEN <<cur>>
    ELSE IF Head(data) = NL THEN <<Append(cur, NL)>> \o ReadLines(Tail(data), <<>>)
    ELSE ReadLines(Tail(data), Append(cur, Head(data)))

\* the scan's test with the name of the wrong file in it
IsIncludeLineOfPrimary(rawLine) ==
    LET line == TrimSpace(rawLine)
        m == FlagsPathMatch(line)
    IN  /\ ~HasPrefix(line, <<"/", "/">>)
        /\ m.ok
        /\ m.m1 = includeDirective
        /\ m.m2 = ignoreF

\* one pass of the scan loop's body: whether the line sets isIncluded
IsIncludeLine(rawLine) ==
    LET line == TrimSpace(rawLine)
        m == FlagsPathMatch(line)
    IN  /\ ~HasPrefix(line, <<"/", "/">>)
        /\ m.ok
        /\ m.m1 = includeDirective
        /\ m.m2 = ignoreSyncF

\* the scan loop of WriteToSynced over the content of .stignore
ScanIncluded(data) ==
    LET ls == ReadLines(data, <<>>)
    IN  \E k \in 1..Len(ls) : IsIncludeLine(ls[k])

\* ---------------------------------------------------------- root location

Marker(placement, dir) == IF dir \in DOMAIN placement THEN placement[dir] ELSE "none"

RECURSIVE WalkUpAnyEntry(_, _)
\* the walk without the info.IsDir() test: any .stfolder entry stops it
WalkUpAnyEntry(placement, cur) ==
    IF cur = <<".">> \/ cur = <<Separator>> THEN cur
    ELSE IF Marker(placement, cur) # "none" THEN cur
    ELSE WalkUpAnyEntry(placement, Dir(cur))

RECURSIVE WalkUp(_, _)
\* the for loop: up from cur until a directory holds a .stfolder directory, or "." or
\* the filesystem root is reached
WalkUp(placement, cur) ==
    IF cur = <<".">> \/ cur = <<Separator>> THEN cur
    ELSE IF Marker(placement, cur) = "dir" THEN cur
    ELSE WalkUp(placement, Dir(cur))

\* FindParentSyncthingDir, from working directory wd
FindParentSyncthingDir(placement, wd) ==
    LET cur == WalkUp(placement, wd)
    IN  IF cur = <<".">> \/ cur = <<Separator>>
        THEN [stDir |-> <<>>, relPath |-> <<>>]
        ELSE [stDir |-> cur, relPath |-> SubSeq(wd, Len(cur) + 1, Len(wd))]

\* ---------------------------------------------------------------- rewriting

RECURSIVE RewriteFromLenient(_, _, _)
\* the loop skipping a pattern the regexp rejects, as the scan of .stignore does
RewriteFromLenient(ps, rel, i) ==
    IF i > Len(ps) THEN [ok |-> TRUE, Patterns |-> ps, bad |-> <<>>]
    ELSE LET t == TrimSpace(ps[i])
             ps1 == [ps EXCEPT ![i] = t]
             m == FlagsPathMatch(t)
         IN  IF HasPrefix(t, <<"/", "/">>) \/ ~m.ok \/ m.m2 = <<>>
             THEN RewriteFromLenient(ps1, rel, i + 1)
             ELSE RewriteFromLenient([ps1 EXCEPT ![i] = m.m1 \o Join(rel, m.m2)], rel, i + 1)

RECURSIVE RewriteFrom(_, _, _)
\* the loop of do() over args.Patterns from index i on: the patterns as the loop
\* leaves them, and the pattern it rejected
RewriteFrom(ps, rel, i) ==
    IF i > Len(ps) THEN [ok |-> TRUE, Patterns |-> ps, bad |-> <<>>]
    ELSE LET t == TrimSpace(ps[i])
             ps1 == [ps EXCEPT ![i] = t]
             m == FlagsPathMatch(t)
         IN  IF HasPrefix(t, <<"/", "/">>) THEN RewriteFrom(ps1, rel, i + 1)
             ELSE IF ~m.ok THEN [ok |-> FALSE, Patterns |-> ps1, bad |-> t]
             ELSE IF m.m2 = <<>> THEN RewriteFrom(ps1, rel, i + 1)
             ELSE RewriteFrom([ps1 EXCEPT ![i] = m.m1 \o Join(rel, m.m2)], rel, i + 1)

\* ------------------------------------------------------------------ prompt

\* the pass with every read error taken for the end of the input
PromptStepAnyErrorEOF(text, rerr) ==
    LET t == TrimSpace(text)
    IN  IF Len(t) <= 1 THEN "yes"
        ELSE IF t[1] \in {"y", "Y"} THEN "yes"
        ELSE IF t[1] \in {"n", "N"} THEN "no"
        ELSE "again"

\* one pass of Prompt's loop on what ReadString returned: "error", "yes", "no", or
\* "again" (first = false, ask once more)
PromptStep(text, rerr) ==
    LET t == TrimSpace(text)
    IN  IF rerr # "nil" /\ rerr # "EOF" THEN "error"
        ELSE IF Len(t) <= 1 THEN "yes"
        ELSE IF t[1] \in {"y", "Y"} THEN "yes"
        ELSE IF t[1] \in {"n", "N"} THEN "no"
        ELSE "again"

\* ------------------------------------------------------------------ inputs

P_a == <<"a">>
P_b == <<"b">>
P_example == <<"n", "o", "t", " ", "a", " ", "v", "a", "l", "i", "d", "!", "!", "l", "i", "n", "e", "(", "?">>
P_flagOnly == <<"(", "?", "d", ")">>
P_png == <<"b", "a", "{", "r", ",", "z", "}", "/", "*", ".", "p", "n", "g">>
P_git == <<"(", "?", "d", ")", "*", "*", "/", ".", "g", "i", "t">>
P_extra == <<"#", "i", "n", "c", "l", "u", "d", "e", " ", "e", "x", "t", "r", "a", ".", "t", "x", "t">>
P_comment == <<"/", "/", " ", "C", "o", "m", "m", "e", "n", "t">>
P_twoFlags == <<"(", "?", "d", ")", "(", "?", "i", ")">>
P_spacedFlags == <<"(", "?", "d", ")", " ", "(", "?", "i", ")", "x">>
P_dotFlag == <<".", "/", "(", "?", "d", ")", "x">>
P_dotFoo == <<".", "/", "f", "o", "o", "/", "i", "g", "n", "o", "r", "e", "_", "m", "e">>
P_up == <<".", ".", "/", "x">>
P_thumbs == <<"(", "?", "d", ")", "T", "h", "u", "m", "b", "s", ".", "d", "b">>
P_blanks == <<" ", " ", "a", " ">>
P_twoLines == <<"a", NL, "b">>
P_twoBlanks == <<"#", "i", "n", "c", "l", "u", "d", "e", " ", " ", "t", "w", "o", ".", "t", "x", "t">>

\* the patterns the rewriting is exercised on, one or two to a command line
RewritePatterns ==
    { P_a, P_example, P_flagOnly, P_png, P_git, P_extra, P_comment, P_twoFlags,
      P_spacedFlags, P_dotFlag, P_dotFoo, P_up, P_thumbs, P_blanks, P_twoLines,
      P_twoBlanks, includeDirective, <<>> }

RewriteLists ==
    {<<p>> : p \in RewritePatterns}
        \cup { <<P_png, P_dotFoo>>, <<P_comment, P_git>>, <<P_git, P_twoLines>> }

\* the pattern lists of the command lines the runs are given
PatternLists ==
    { <<P_a>>, <<P_a, P_b>>, <<P_a, <<"b", NL, "c">>>>, <<<<" ">>, P_a>>, <<P_example>> }

IncludeLine == includeDirective \o ignoreSyncF

\* what .stignore may be before the first run
PrimaryFiles ==
    { NoFile,
      File(<<>>),
      File(<<"x">>),
      File(<<"x", NL>>),
      File(IncludeLine \o <<NL>>),
      File(<<"x", NL, " ">> \o includeDirective \o <<" ">> \o ignoreSyncF \o <<"\r">>),
      File(<<"/", "/">> \o IncludeLine \o <<NL>>),
      DirEntry }

\* what .stignore_sync may be before the first run
SecondaryFiles == { NoFile, File(<<>>), File(<<"y">>), File(<<"y", NL>>), DirEntry }

NoMarkers == [d \in Dirs |-> "none"]

\* one synchronized folder, /root, whose two files primary and secondary are; a
\* regular file named .stfolder further down is no marker
Placements ==
    { [NoMarkers EXCEPT ![DirAt(1)] = "dir"],
      [NoMarkers EXCEPT ![DirAt(1)] = "dir", ![DirAt(2)] = "file"] }

Line(s) == s \o <<NL>>

\* what one ReadString('\n') on standard input may return
ReadResults ==
    { [text |-> <<NL>>, rerr |-> "nil"],
      [text |-> Line(<<"y">>), rerr |-> "nil"],
      [text |-> Line(<<"n">>), rerr |-> "nil"],
      [text |-> Line(<<"n", "o">>), rerr |-> "nil"],
      [text |-> Line(<<"Y", "e", "s">>), rerr |-> "nil"],
      [text |-> Line(<<"m", "a", "y", "b", "e">>), rerr |-> "nil"],
      [text |-> <<>>, rerr |-> "EOF"],
      [text |-> <<"n", "o">>, rerr |-> "EOF"],
      [text |-> <<"m", "a", "y", "b", "e">>, rerr |-> "EOF"],
      [text |-> <<>>, rerr |-> "EIO"] }

\* at the end of the input every further read returns nothing and io.EOF
ReadsAfter(rs) ==
    IF rs # <<>> /\ rs[Len(rs)].rerr = "EOF"
    THEN {[text |-> <<>>, rerr |-> "EOF"]}
    ELSE ReadResults

\* --------------------------------------------------------------------- runs

Idle ==
    /\ cwd = <<>>
    /\ args = NoArgs
    /\ args0 = NoArgs
    /\ pc = "idle"
    /\ stDir = <<>>
    /\ relPath = <<>>
    /\ shouldPrompt = FALSE
    /\ isIncluded = FALSE
    /\ off = 0
    /\ reads = <<>>
    /\ prompt = FALSE
    /\ err = "nil"
    /\ errArg = <<>>
    /\ primary0 = NoFile
    /\ secondary0 = NoFile

Init ==
    /\ stfolder \in Placements
    /\ primary \in PrimaryFiles
    /\ secondary \in SecondaryFiles
    /\ runs = 0
    /\ Idle

\* main: arg.MustParse(&args), in a fresh process
Invoke ==
    /\ pc = "idle"
    /\ runs = 0
    /\ runs < MaxRuns
    /\ \E wd \in Dirs, l \in BOOLEAN, s \in BOOLEAN, a \in BOOLEAN, ps \in PatternLists :
          /\ cwd' = wd
          /\ args' = [Local |-> l, Synced |-> s, Absolute |-> a, Patterns |-> ps]
          /\ args0' = args'
    /\ pc' = "start"
    /\ runs' = runs + 1
    /\ primary0' = primary
    /\ secondary0' = secondary
    /\ UNCHANGED <<stfolder, primary, secondary, stDir, relPath, shouldPrompt, isIncluded,
                   off, reads, prompt, err, errArg>>

\* the same command line given once more, in the same working directory, in a fresh
\* process: the files are what the run before left
Rerun ==
    /\ pc = "idle"
    /\ runs >= 1
    /\ runs < MaxRuns
    /\ args' = args0
    /\ pc' = "start"
    /\ runs' = runs + 1
    /\ primary0' = primary
    /\ secondary0' = secondary
    /\ UNCHANGED <<stfolder, primary, secondary, cwd, args0, stDir, relPath, shouldPrompt,
                   isIncluded, off, reads, prompt, err, errArg>>

\* do: FindParentSyncthingDir and the stDir == "" check
Locate ==
    /\ pc = "start"
    /\ LET r == FindParentSyncthingDir(stfolder, cwd)
       IN  /\ stDir' = r.stDir
           /\ relPath' = r.relPath
           /\ IF r.stDir = <<>>
              THEN pc' = "failed" /\ err' = "not inside"
              ELSE pc' = "located" /\ err' = err
    /\ UNCHANGED <<stfolder, primary, secondary, cwd, args, args0, shouldPrompt, isIncluded,
                   off, reads, prompt, errArg, primary0, secondary0, runs>>

\* do: if !args.Absolute { for i := range args.Patterns ... }
Rewrite ==
    /\ pc = "located"
    /\ IF args.Absolute
       THEN UNCHANGED <<args, err, errArg>> /\ pc' = "rewritten"
       ELSE LET r == RewriteFrom(args.Patterns, relPath, 1)
            IN  /\ args' = [args EXCEPT !.Patterns = r.Patterns]
                /\ IF r.ok
                   THEN pc' = "rewritten" /\ UNCHANGED <<err, errArg>>
                   ELSE pc' = "failed" /\ err' = "incorrect pattern" /\ errArg' = r.bad
    /\ UNCHANGED <<stfolder, primary, secondary, cwd, args0, stDir, relPath, shouldPrompt,
                   isIncluded, off, reads, prompt, primary0, secondary0, runs>>

\* do: the choice of the target when neither --local nor --synced is given
ChooseTarget ==
    /\ pc = "rewritten"
    /\ IF ~(args.Local \/ args.Synced)
       THEN IF secondary.kind = "file"
            THEN args' = [args EXCEPT !.Synced = TRUE] /\ shouldPrompt' = TRUE
            ELSE args' = [args EXCEPT !.Local = TRUE] /\ shouldPrompt' = FALSE
       ELSE UNCHANGED args /\ shouldPrompt' = FALSE
    /\ pc' = "targeted"
    /\ UNCHANGED <<stfolder, primary, secondary, cwd, args0, stDir, relPath, isIncluded,
                   off, reads, prompt, err, errArg, primary0, secondary0, runs>>

\* do: case args.Local: OpenAndAppend(.stignore)
WriteLocal ==
    /\ pc = "targeted"
    /\ ~args.Synced
    /\ args.Local
    /\ LET r == OpenAndAppend(primary, args.Patterns)
       IN  /\ primary' = r.file
           /\ IF r.ok THEN pc' = "done" /\ err' = err
                      ELSE pc' = "failed" /\ err' = "file"
    /\ UNCHANGED <<stfolder, secondary, cwd, args, args0, stDir, relPath, shouldPrompt,
                   isIncluded, off, reads, prompt, errArg, primary0, secondary0, runs>>

\* WriteToSynced up to the prompt: .stignore opened (and created), and scanned to its end
\* or to the include line; the file is short of bufio's buffer, so the handle's offset
\* is the end of the file either way
ScanPrimary ==
    /\ pc = "targeted"
    /\ args.Synced
    /\ LET o == OpenFile(primary)
       IN  /\ primary' = o.file
           /\ IF ~o.ok
              THEN /\ pc' = "failed" /\ err' = "file"
                   /\ UNCHANGED <<isIncluded, off>>
              ELSE /\ isIncluded' = ScanIncluded(o.file.data)
                   /\ off' = Len(o.file.data)
                   /\ pc' = IF ~isIncluded' /\ shouldPrompt THEN "prompting" ELSE "scanned"
                   /\ err' = err
    /\ UNCHANGED <<stfolder, secondary, cwd, args, args0, stDir, relPath, shouldPrompt,
                   reads, prompt, errArg, primary0, secondary0, runs>>

\* Prompt: one ReadString and what the loop makes of it
PromptRead ==
    /\ pc = "prompting"
    /\ \E rd \in ReadsAfter(reads) :
          LET step == PromptStep(rd.text, rd.rerr)
          IN  /\ step = "again" => Len(reads) < MaxPromptReads
              /\ reads' = Append(reads, rd)
              /\ prompt' = (step = "yes")
              /\ pc' = IF step = "error" THEN "failed"
                       ELSE IF step = "again" THEN "prompting"
                       ELSE "scanned"
              /\ err' = IF step = "error" THEN "prompt failed" ELSE err
    /\ UNCHANGED <<stfolder, primary, secondary, cwd, args, args0, stDir, relPath,
                   shouldPrompt, isIncluded, off, errArg, primary0, secondary0, runs>>

\* the condition with the synced file chosen only on a link or an answer
ToSyncedOnlyAsked(included, mayPrompt, answer) == included \/ (mayPrompt /\ answer)

\* WriteToSynced's "if isIncluded || !shouldPrompt || prompt"
ToSynced(included, mayPrompt, answer) == included \/ ~mayPrompt \/ answer

\* WriteToSynced from that condition on
WriteSynced ==
    /\ pc = "scanned"
    /\ IF ToSynced(isIncluded, shouldPrompt, prompt)
       THEN LET r == OpenAndAppend(secondary, args.Patterns)
            IN  IF ~r.ok
                THEN /\ pc' = "failed" /\ err' = "file"
                     /\ UNCHANGED <<primary, secondary>>
                ELSE /\ secondary' = r.file
                     /\ primary' =
                           IF isIncluded THEN primary
                           ELSE IF EndsWithNewLine(primary.data)
                           THEN File(FileWrite(primary.data, off, Line(IncludeLine)))
                           ELSE File(FileWrite(primary.data, off, <<NL>> \o Line(IncludeLine)))
                     /\ pc' = "done" /\ err' = err
       ELSE /\ primary' = File(AppendData(primary.data, args.Patterns))
            /\ pc' = "done" /\ err' = err
            /\ UNCHANGED secondary
    /\ UNCHANGED <<stfolder, cwd, args, args0, stDir, relPath, shouldPrompt, isIncluded,
                   off, reads, prompt, errArg, primary0, secondary0, runs>>

\* main: the message and the exit; the files stay for the next invocation, and the
\* command line is remembered for a re-run
Exit ==
    /\ pc \in {"done", "failed"}
    /\ args' = NoArgs
    /\ pc' = "idle"
    /\ stDir' = <<>>
    /\ relPath' = <<>>
    /\ shouldPrompt' = FALSE
    /\ isIncluded' = FALSE
    /\ off' = 0
    /\ reads' = <<>>
    /\ prompt' = FALSE
    /\ err' = "nil"
    /\ errArg' = <<>>
    /\ primary0' = NoFile
    /\ secondary0' = NoFile
    /\ UNCHANGED <<stfolder, primary, secondary, cwd, args0, runs>>

Next ==
    \/ Invoke
    \/ Rerun
    \/ Locate
    \/ Rewrite
    \/ ChooseTarget
    \/ WriteLocal
    \/ ScanPrimary
    \/ PromptRead
    \/ WriteSynced
    \/ Exit

Spec == Init /\ [][Next]_vars

\* -------------------------------------------- the rewriting step on its own

\* an invocation in any directory of the chain, stopped after the rewriting
InitRewrite ==
    /\ stfolder \in Placements
    /\ primary = NoFile
    /\ secondary = NoFile
    /\ cwd \in Dirs
    /\ \E a \in BOOLEAN, ps \in RewriteLists :
          args = [Local |-> FALSE, Synced |-> FALSE, Absolute |-> a, Patterns |-> ps]
    /\ args0 = args
    /\ pc = "start"
    /\ stDir = <<>>
    /\ relPath = <<>>
    /\ shouldPrompt = FALSE
    /\ isIncluded = FALSE
    /\ off = 0
    /\ reads = <<>>
    /\ prompt = FALSE
    /\ err = "nil"
    /\ errArg = <<>>
    /\ primary0 = NoFile
    /\ secondary0 = NoFile
    /\ runs = 1

NextRewrite ==
    \/ Locate
    \/ Rewrite

SpecRewrite == InitRewrite /\ [][NextRewrite]_vars

\* ------------------------------------------------ root location on its own

\* every placement of .stfolder entries (none, a regular file, a directory) on the
\* chain, and every working directory on it
InitRoot ==
    /\ stfolder \in [Dirs -> MarkerKinds]
    /\ primary = NoFile
    /\ secondary = NoFile
    /\ cwd \in Dirs
    /\ args = [Local |-> FALSE, Synced |-> FALSE, Absolute |-> TRUE, Patterns |-> <<P_a>>]
    /\ args0 = args
    /\ pc = "start"
    /\ stDir = <<>>
    /\ relPath = <<>>
    /\ shouldPrompt = FALSE
    /\ isIncluded = FALSE
    /\ off = 0
    /\ reads = <<>>
    /\ prompt = FALSE
    /\ err = "nil"
    /\ errArg = <<>>
    /\ primary0 = NoFile
    /\ secondary0 = NoFile
    /\ runs = 1

NextRoot == Locate

SpecRoot == InitRoot /\ [][NextRoot]_vars

\* ------------------------------------------------------------------ claims

IsComment(t) == HasPrefix(t, <<"/", "/">>)

\* a is the beginning of b
StartsWith(b, a) == Len(a) <= Len(b) /\ SubSeq(b, 1, Len(a)) = a

\* the prefix of a pattern as the specification describes it: the single "#include "
\* token, or else the leading run of (?x) flag-groups
PrefixLen(t) ==
    IF StartsWith(t, includeDirective) THEN Len(includeDirective) ELSE 4 * FlagRun(t, 1)

\* the rewritten pattern the specification asks for: a comment or a prefix-only
\* pattern as it was (trimmed or not), any other with the offset joined to its path
RewrittenAsSpecified(p, offset, out) ==
    LET t == TrimLeft(p)
        n == PrefixLen(t)
        path == TrimSpace(SubSeq(t, n + 1, Len(t)))
    IN  IF IsComment(t) \/ path = <<>>
        THEN out \in {p, TrimSpace(p)}
        ELSE out = SubSeq(t, 1, n) \o Join(offset, path)

\* C1: in non-absolute mode every pattern that passed the rewriting step is unchanged
\* when it is a comment or prefix-only (flag-groups or "#include " with nothing after
\* them), and otherwise is its prefix followed by structural-join(offset, path)
C1_Rewritten ==
    (pc = "rewritten" /\ ~args0.Absolute) =>
        \A i \in 1..Len(args0.Patterns) :
            RewrittenAsSpecified(args0.Patterns[i], relPath, args.Patterns[i])

\* C9: classifying the line the rewriting step wrote gives the directive prefix of the
\* original line and the path structural-join(offset, original path), for every
\* directive line and every offset, the empty one included
C9_RoundTrip ==
    (pc = "rewritten" /\ ~args0.Absolute) =>
        \A i \in 1..Len(args0.Patterns) :
            LET t == TrimSpace(args0.Patterns[i])
                m == FlagsPathMatch(t)
                w == FlagsPathMatch(TrimSpace(args.Patterns[i]))
            IN  (~IsComment(t) /\ m.ok) =>
                    /\ w.ok
                    /\ w.m1 = m.m1
                    /\ w.m2 = Join(relPath, m.m2)

\* e lies below d in the directory tree
IsUnder(e, d) == e # d /\ (d = <<Separator>> \/ StartsWith(e, d \o <<Separator>>))

\* the directories from e up to, and without, d
Between(e, d) == {x \in Dirs : (x = e \/ IsUnder(e, x)) /\ IsUnder(x, d)}

\* C10 as stated: when a directory d above the working directory resolves to a root,
\* the working directory resolves to the same root
C10_Monotonic ==
    pc # "start" =>
        \A d \in Dirs :
            LET r == FindParentSyncthingDir(stfolder, d).stDir
            IN  (IsUnder(cwd, d) /\ r # <<>>) => stDir = r

\* C10 amended: when a directory d above the working directory resolves to root r, the
\* working directory resolves too: to r when no directory from it up to (and without) d
\* holds a .stfolder directory, and otherwise to the nearest such directory, below d
C10_Nearest ==
    pc # "start" =>
        \A d \in Dirs :
            LET r == FindParentSyncthingDir(stfolder, d).stDir
                marked == {x \in Between(cwd, d) : stfolder[x] = "dir"}
            IN  (IsUnder(cwd, d) /\ r # <<>>) =>
                    /\ pc = "located"
                    /\ marked = {} => stDir = r
                    /\ marked # {} =>
                          /\ stDir \in marked
                          /\ \A x \in marked : x = stDir \/ IsUnder(stDir, x)

\* the working directory two levels below a directory that resolves to the root above
\* it, a regular file named .stfolder in between, and the same root found
C10_Witness ==
    /\ pc = "located"
    /\ cwd = DirAt(3)
    /\ stfolder[DirAt(2)] = "file"
    /\ stfolder[DirAt(3)] = "none"
    /\ FindParentSyncthingDir(stfolder, DirAt(2)).stDir = DirAt(1)
    /\ stDir = DirAt(1)
    /\ relPath = <<Separator>> \o SegNames[2] \o <<Separator>> \o SegNames[3]

\* ------------------------------------------------- claims about the files

\* the patterns as Append receives them
Given == args.Patterns

\* new is old with bytes added at its end, on a line of their own
AppendedTo(old, new, bytes) ==
    new = old \o (IF old # <<>> /\ old[Len(old)] = NL THEN <<>> ELSE <<NL>>) \o bytes

\* each pattern on a line of its own
OwnLines(ps) == IF ps = <<>> THEN <<>> ELSE Concat([i \in 1..Len(ps) |-> Line(ps[i])])

\* some line of the file is "#include .stignore_sync", blanks around it aside
HasIncludeLine(data) ==
    LET ls == ReadLines(data, <<>>)
    IN  \E k \in 1..Len(ls) :
            LET t == TrimSpace(ls[k])
            IN  /\ StartsWith(t, includeDirective)
                /\ TrimLeft(SubSeq(t, Len(includeDirective) + 1, Len(t))) = ignoreSyncF

Linked0 == primary0.kind = "file" /\ HasIncludeLine(primary0.data)
Auto0 == ~args0.Local /\ ~args0.Synced
InRun == pc # "idle"

\* C2: an append of patterns p1..pN leaves the file as its previous content followed
\* by the N lines p1, ..., pN, each ended by a newline
C2_OwnLines ==
    pc = "done" =>
        \/ \E sep \in {<<>>, <<NL>>} :
               primary.data = primary0.data \o sep \o OwnLines(Given)
        \/ \E sep \in {<<>>, <<NL>>} :
               secondary.data = secondary0.data \o sep \o OwnLines(Given)

\* what a write did to one file during the run: nothing, or bytes added after the
\* previous content, starting on a fresh line and ending with a newline
FreshLine(old, new) ==
    new # old =>
        /\ Len(new) > Len(old)
        /\ StartsWith(new, old)
        /\ new[Len(new)] = NL
        /\ (old = <<>> \/ old[Len(old)] # NL) => new[Len(old) + 1] = NL

\* C7: every write to .stignore and to .stignore_sync keeps the previous content as a
\* prefix, starts with a newline when the previous content is empty or does not end
\* with one, and leaves the file ending with a newline
C7_FreshLine ==
    InRun =>
        /\ FreshLine(primary0.data, primary.data)
        /\ FreshLine(secondary0.data, secondary.data)

\* a run that wrote to both files, neither of which ended with a newline
C7_Witness ==
    /\ pc = "done"
    /\ primary0 = File(<<"x">>)
    /\ secondary0 = File(<<"y">>)
    /\ primary = File(<<"x", NL>> \o Line(IncludeLine))
    /\ secondary = File(<<"y", NL>> \o Line(Concat(Given)))

Answered(text) == reads # <<>> /\ reads[1] = [text |-> text, rerr |-> "nil"]

\* the run linked the two files: patterns to .stignore_sync, the include line to
\* .stignore
DidLink ==
    /\ AppendedTo(secondary0.data, secondary.data, Line(Concat(Given)))
    /\ primary.kind = "file"
    /\ AppendedTo(primary0.data, primary.data, Line(IncludeLine))

\* the run wrote the patterns to .stignore and nothing else
DidLocal ==
    /\ primary.kind = "file"
    /\ AppendedTo(primary0.data, primary.data, Line(Concat(Given)))
    /\ secondary = secondary0

\* C4: with no include line in .stignore, .stignore_sync there and the target
\* auto-detected, the prompt is shown; the answer n sends the patterns to .stignore
\* with no include line written and .stignore_sync untouched; the answers y and the
\* empty line send them to .stignore_sync and add the include line to .stignore
C4_PromptDecides ==
    (pc = "done" /\ Auto0 /\ ~Linked0 /\ secondary0.kind = "file") =>
        /\ reads # <<>>
        /\ Answered(Line(<<"n">>)) => DidLocal
        /\ (Answered(Line(<<"y">>)) \/ Answered(<<NL>>)) => DidLink

\* C5 as stated: with --local or --synced the patterns go to the chosen file, nothing
\* is asked and the other file is neither created nor changed
C5_OnlyChosen ==
    (pc = "done" /\ ~Auto0) =>
        /\ reads = <<>>
        /\ IF args0.Synced
           THEN /\ AppendedTo(secondary0.data, secondary.data, Line(Concat(Given)))
                /\ primary = primary0
           ELSE DidLocal

\* C5 amended: with --local or --synced nothing is asked; --local alone writes the
\* patterns to .stignore and leaves .stignore_sync alone; --synced writes them to
\* .stignore_sync and leaves .stignore alone only when it holds the include line:
\* otherwise .stignore is created if need be and given the include line
C5_Forced ==
    (InRun /\ ~Auto0) =>
        /\ pc # "prompting"
        /\ reads = <<>>
        /\ (pc = "done" /\ ~args0.Synced) => DidLocal
        /\ (pc = "done" /\ args0.Synced /\ Linked0) =>
              /\ AppendedTo(secondary0.data, secondary.data, Line(Concat(Given)))
              /\ primary = primary0
        /\ (pc = "done" /\ args0.Synced /\ ~Linked0) => DidLink

\* --synced on a folder with no .stignore: the file is created with the include line
C5_Witness ==
    /\ pc = "done"
    /\ args0.Synced /\ ~args0.Local
    /\ primary0 = NoFile
    /\ secondary0 = NoFile
    /\ primary = File(<<NL>> \o Line(IncludeLine))
    /\ secondary = File(<<NL>> \o Line(Concat(Given)))

\* the patterns of the command line, trimmed, that are no comments
Checked == {i \in 1..Len(args0.Patterns) : ~IsComment(TrimSpace(args0.Patterns[i]))}

\* the rewriting step is over
PastRewrite == InRun /\ stDir # <<>> /\ pc \notin {"start", "located"}

\* C6 as stated: a pattern outside the directive grammar, "not a valid!!line(?" being
\* one, makes a run in non-absolute mode fail on that pattern with the files untouched
C6_AbortsOnExample ==
    (PastRewrite /\ ~args0.Absolute
        /\ \E i \in Checked :
              \/ ~FlagsPathMatch(TrimSpace(args0.Patterns[i])).ok
              \/ args0.Patterns[i] = P_example) =>
        /\ pc = "failed"
        /\ err = "incorrect pattern"
        /\ primary = primary0
        /\ secondary = secondary0

\* the patterns the regexp rejects: empty once trimmed, or holding a line break
Rejected == {i \in Checked : LET t == TrimSpace(args0.Patterns[i])
                              IN  t = <<>> \/ ~NoNewline(t)}

\* C6 amended: in non-absolute mode a pattern that is empty once trimmed or holds a
\* line break makes the run fail, naming the first such pattern, with neither file
\* created or changed, wherever the pattern stands in the list; every other pattern
\* is accepted, "not a valid!!line(?" too, which is rewritten as a path
C6_Aborts ==
    (PastRewrite /\ ~args0.Absolute) =>
        /\ Rejected # {} =>
              /\ pc = "failed"
              /\ err = "incorrect pattern"
              /\ \E i \in Rejected :
                    /\ \A j \in Rejected : i <= j
                    /\ errArg = TrimSpace(args0.Patterns[i])
              /\ primary = primary0
              /\ secondary = secondary0
        /\ Rejected = {} => err # "incorrect pattern"
        /\ args0.Patterns = <<P_example>> => args.Patterns = <<Join(relPath, P_example)>>

\* the second of two patterns is rejected after the first was rewritten in memory
C6_Witness ==
    /\ pc = "failed"
    /\ err = "incorrect pattern"
    /\ Rejected = {2}
    /\ relPath # <<>>
    /\ args.Patterns[1] = Join(relPath, args0.Patterns[1])
    /\ args.Patterns[1] # args0.Patterns[1]
    /\ errArg = args0.Patterns[2]
    /\ primary = primary0
    /\ secondary = secondary0

LastRead == reads[Len(reads)]

\* the text holds an answer the prompt knows: y, Y, n or N in front
Recognised(text) ==
    LET t == TrimSpace(text) IN t # <<>> /\ t[1] \in {"y", "Y", "n", "N"}

\* C8 as stated: when the input ends or fails before a recognised answer was read, the
\* prompt reports an error and the invocation fails
C8_EndOfInputFails ==
    (InRun /\ reads # <<>> /\ LastRead.rerr # "nil" /\ ~Recognised(LastRead.text)) =>
        /\ pc = "failed"
        /\ err = "prompt failed"

\* C8 amended: a read error other than the end of the input makes the invocation fail
\* with a prompt error and no byte written; at the end of the input the text read so
\* far is taken as the answer, and with nothing left the answer is the default yes:
\* the run goes on to link the two files
C8_ReadErrorFails ==
    (InRun /\ reads # <<>>) =>
        /\ LastRead.rerr \notin {"nil", "EOF"} =>
              /\ pc = "failed"
              /\ err = "prompt failed"
              /\ primary.data = primary0.data
              /\ secondary = secondary0
        /\ (LastRead.rerr = "EOF" /\ TrimSpace(LastRead.text) = <<>>) =>
              /\ pc \in {"scanned", "done"}
              /\ prompt
              /\ pc = "done" => DidLink

\* the read after an unrecognised answer fails: the run ends in a prompt error, having
\* created .stignore and written nothing
C8_Witness ==
    /\ pc = "failed"
    /\ err = "prompt failed"
    /\ Len(reads) = 2
    /\ reads[1].rerr = "nil"
    /\ LastRead.rerr = "EIO"
    /\ primary0 = NoFile
    /\ primary = File(<<>>)
    /\ secondary = secondary0

====
